---- MODULE Spec2Model ----
(***************************************************************************)
(* A model of lochness' coordination code: nconfigd's debounced consumer   *)
(* (cmd/nconfigd/main.go), dobharchu's event loop (cmd/dobharchu/main.go), *)
(* the ready-token hand-off both use for clean shutdown, and the Watcher   *)
(* and Lock packages that they and locker call.  The two packages are not  *)
(* part of the source tree: they are modelled from their description in    *)
(* the design document (sections 4.1 and 4.2).  One run of locker (main    *)
(* and cmdrun, in cmd/nconfigd/main.go) and the function jmap.ID of the    *)
(* guest command line have specifications of their own.                    *)
(*                                                                         *)
(* Time is discrete.  A tick is 1/TicksPerQuiet of the quiet period.  The  *)
(* steps of the program take no time (a tick passes only when no step of   *)
(* the program is enabled); the ansible run and the environment (store     *)
(* events, signals, watcher failure) take or happen at any time.           *)
(***************************************************************************)
EXTENDS Integers, Sequences, FiniteSets, TLC

\* ---------------------------------------------------------------- bounds
TicksPerQuiet == 2      \* clock resolution: ticks per quiet period
NKeys == 2              \* keys under the watched prefixes
MaxBurst == 22          \* events of one burst of distinct keys
MaxPending == 1         \* events the Watcher holds undelivered
NProcs == 2             \* contenders for the lock key
NPrefixes == 2          \* prefixes added to the Watcher
MaxPath == 2            \* characters of a key or of a configured prefix
MaxEntries == 2         \* entries of the Config
MaxBatch == 2           \* keys of a batch
MaxCalls == 2           \* calls of getTags with the same arguments
MaxIndex == 3           \* mutations of the store
MaxRetries == 1         \* retries of a watch call before the Watcher gives up

\* ------------------------------------------------------ program constants
QuietMs == 100          \* time.NewTimer(100 * time.Millisecond)
MaxMs == 1000           \* time.NewTimer(1 * time.Second)
ChanCap == 1            \* make(chan string, 1), make(chan struct{}, 1)

Quiet == TicksPerQuiet
MaxWait == (MaxMs \div QuietMs) * TicksPerQuiet

Min(a, b) == IF a < b THEN a ELSE b

VARIABLES
    prog,        \* the program of this behaviour: "nconfigd", "dobharchu" or
                 \* "locker" (the contenders for a lock key)
    proc,        \* "running", "exit0" (main returned), "ansibleFailed",
                 \* "watcherFailed" (log.Fatal), "fetchFailed" (os.Exit(1)), "killed"
    \* --- Watcher
    wq,          \* events forwarded by the watch tasks, not yet returned by Next()
    wclosed,     \* Close() was called
    werr,        \* the terminal error (Err() non-nil)
    closeCalls,  \* number of calls of Close()
    \* --- consumeResponses: the ingestion goroutine
    ipc,         \* "next" (in w.Next()), "send" (at key <- event.Key), "done"
    event,       \* the key of w.Event() / w.Response()
    \* --- consumeResponses: the consumer loop
    key,         \* the channel `key`
    keys,        \* the map `keys`
    timer,       \* ticks until `timer` expires; 0: stopped or expired
    timerC,      \* values in timer.C (a channel of capacity 1)
    max,         \* ticks until `max` expires; 0: stopped or expired
    maxC,        \* values in max.C
    maxStopped,
    cpc,         \* "select", "drainTimer", "drainMax", "take", "run", "put", "clear"
    aKeys,       \* the keys passed to runAnsible
    \* --- dobharchu: the event loop of main
    dpc,         \* "next", "take", "integrate", "fetch", "update", "put", "end"
    updErr,      \* updateConfigs returned an error in this round
    \* --- the ready token
    ready,       \* tokens in the channel `ready`
    done,        \* the worker holds the token (its local `done`)
    \* --- main: the signal handler
    hpc,         \* "loop" (signal.Notify not reached), "sigwait", "take", "close", "return"
    \* --- observers (history of the run, no effect on the program)
    track,       \* the observers of the stream of events are on
    gLast,       \* ticks since the last event arrived, capped at Quiet (observers on)
    sinceFire,   \* ticks since the action last started, while contFire
    contFire,    \* events have arrived without a full quiet period since before then
    bAge,        \* ticks since max was armed for the open batch, capped
    sigInRun,    \* the signal arrived while the action was running
    busyTaken,   \* events taken from the Watcher during the current action
    nBurst,      \* events of the burst so far; its keys are 1..nBurst
    sDur,        \* ticks since the burst began, capped
    sLate,       \* an event of the burst arrived max-wait or more after the first
    sFires,      \* runs of the action since the burst began, capped at 2
    sGot,        \* the keys passed to the first of them
    \* --- the lock key in the store
    kval,        \* the value stored under the lock key; 0: the key is absent
    \* --- the lock handles, one per contender
    lval,        \* the value a contender passes to Acquire (locker: its host name)
    lblock,      \* the contender's Acquire is blocking
    lst,         \* "Unheld", "Pending" (in a blocking Acquire), "Held", "Renewing",
                 \* "Released", "Lost", "Failed" (AlreadyHeld), "Canceled"
    lrel,        \* Release() has done its delete and not yet stopped the renewal task
    \* --- observers of the lock
    owner,       \* the contender whose create made the stored key; 0: the key is absent
    gone,        \* the key a contender created expired or was deleted by another
    staleRenewed,   \* a renewal refreshed a key created by another contender
    deletedOther,   \* a Release() deleted a key created by another contender
    waited,      \* the contender's Acquire has been pending
    again,       \* Release() was called on the Released handle
    \* --- the store under the watched prefixes
    sidx,        \* the store's current index
    hist,        \* hist[i]: the prefix of the mutation with index i
    compacted,   \* the store has discarded the events with index <= compacted
    \* --- the Watcher, with its watch tasks and its caller
    pst,         \* per prefix: "None" (not added), "Active", "Stale", "Closed"
    cur,         \* per prefix: the last-seen index
    retries,     \* per prefix: failed watch calls in a row
    wqueue,      \* the internal queue: events <<prefix, index>> forwarded by the tasks
    wcl,         \* Close() was called
    wer,         \* the terminal error: Err() is non-nil
    npc,         \* the caller of Next(): "idle", "pending", "stopped" (Next() returned stop)
    wev,         \* Event(): the event of the last successful Next()
    \* --- observers of the Watcher
    dl,          \* per prefix: the index of the last event Next() delivered
    crossed,     \* Next() delivered an event with a smaller index than the one before
    wcloses,     \* calls of Close(), capped at 2
    lost,        \* the prefixes of which a resync skipped an event
    exhausted,   \* a watch task ran out of retries
    \* --- one run of locker
    lproc,       \* "running", "exit0" (main returned), "lockFailed", "marshalFailed",
                 \* "startFailed" (log.Fatal), "killed" (signal before signal.Notify)
    mpc,         \* main: "acquire", "go", "notify", "select", "send", "recv",
                 \* "return", "none"
    rpc,         \* cmdrun: "none" (not started), "start", "select", "stop",
                 \* "send", "end"
    svc,         \* the service: "none", "running", "exited" (monService sends on
                 \* `exited`), "reported" (cmdrun received it), "stopped"
    \* --- a call of jmap.ID
    jm,          \* the map
    idr,         \* the outcome of ID(): st is "none" (not called), "ok" or "panic"
    \* --- calls of getTags and runAnsible
    config,      \* the Config: a map from prefixes to tag lists
    bkeys,       \* the keys passed to runAnsible
    yields,      \* per key of the batch: what getTags returned in runAnsible
    args,        \* the arguments of the ansible run; <<>> before runAnsible
    calls,       \* the results of successive calls getTags(config, bkeys[1])
    \* --- the start of dobharchu
    spc,         \* main: "fetch", "update", "watch" (the Add loop and w.Next()),
                 \* "refresh", "exit" (os.Exit(1)), "none"
    fstate,      \* the indexes of the mutations that the Fetcher's state holds
    written      \* the indexes of the mutations that the config files hold

watcherVars == <<wq, wclosed, werr, closeCalls>>
ingestVars == <<ipc, event>>
timerVars == <<timer, timerC, max, maxC, maxStopped>>
tokenVars == <<ready, done>>
dobVars == <<dpc, updErr>>
fireObs == <<track, sinceFire, contFire>>
burstObs == <<nBurst, sDur, sLate, sFires, sGot>>
storeVars == <<kval, owner>>
handleVars == <<lval, lblock, lst, lrel>>
lockObs == <<gone, staleRenewed, deletedOther, waited, again>>
lockVars == <<storeVars, handleVars, lockObs>>
kvVars == <<sidx, hist, compacted>>
taskVars == <<pst, cur, retries>>
wchObs == <<dl, crossed, wcloses, lost, exhausted>>
wchVars == <<kvVars, taskVars, wqueue, wcl, wer, npc, wev, wchObs>>
runVars == <<lproc, mpc, rpc, svc>>
jmapVars == <<jm, idr>>
tagVars == <<config, bkeys, yields, args, calls>>
startVars == <<spc, fstate, written>>

daemonVars == <<prog, proc, watcherVars, ingestVars, key, keys, timerVars, cpc, aKeys, dpc,
          updErr,
          tokenVars, hpc, gLast, fireObs, bAge, sigInRun, busyTaken, burstObs>>

vars == <<daemonVars, lockVars, wchVars, runVars, jmapVars, tagVars, startVars>>

Running == proc = "running"
Keys == 1..NKeys

\* The consumer waits in select with nothing accumulated, nothing in flight,
\* both timers disarmed and the token in its slot.
Idle ==
    /\ Running /\ prog = "nconfigd"
    /\ cpc = "select" /\ keys = {} /\ key = <<>>
    /\ timer = 0 /\ timerC = 0 /\ max = 0 /\ maxC = 0 /\ maxStopped
    /\ wq = <<>> /\ ipc = "next" /\ ~wclosed /\ ~werr
    /\ ready = 1 /\ ~done /\ hpc = "sigwait"

\* ------------------------------------------------------------ the Watcher

\* A watch task forwards the next store event under a watched prefix.
WatchDeliver ==
    /\ Running /\ ~wclosed /\ ~werr
    /\ Len(wq) < MaxPending
    /\ nBurst = 0
    /\ \E k \in Keys : wq' = Append(wq, k)
    /\ gLast' = IF track THEN 0 ELSE gLast
    /\ UNCHANGED <<prog, proc, wclosed, werr, closeCalls, ingestVars, key, keys,
                   timerVars, cpc, aKeys, dobVars, tokenVars, hpc, fireObs, bAge,
                   sigInRun, busyTaken, burstObs>>
    /\ UNCHANGED <<lockVars, wchVars, runVars, jmapVars, tagVars, startVars>>

\* The same, for the events of one burst: each mutates a key of its own and
\* arrives less than a quiet period after the one before.
BurstDeliver ==
    /\ Running /\ ~wclosed /\ ~werr
    /\ Len(wq) < MaxPending
    /\ nBurst < MaxBurst
    /\ nBurst = 0 \/ gLast < Quiet
    /\ wq' = Append(wq, nBurst + 1)
    /\ nBurst' = nBurst + 1
    /\ sLate' = (sLate \/ (nBurst > 0 /\ sDur >= MaxWait))
    /\ gLast' = 0
    /\ UNCHANGED <<prog, proc, wclosed, werr, closeCalls, ingestVars, key, keys,
                   timerVars, cpc, aKeys, dobVars, tokenVars, hpc, fireObs, bAge,
                   sigInRun, busyTaken, sDur, sFires, sGot>>
    /\ UNCHANGED <<lockVars, wchVars, runVars, jmapVars, tagVars, startVars>>

\* A watch task exhausts its retries: the Watcher stops with an error.
WatchFail ==
    /\ Running /\ ~wclosed /\ ~werr
    /\ werr' = TRUE
    /\ UNCHANGED <<prog, proc, wq, wclosed, closeCalls, ingestVars, key, keys,
                   timerVars, cpc, aKeys, dobVars, tokenVars, hpc, gLast, fireObs, bAge,
                   sigInRun, busyTaken, burstObs>>
    /\ UNCHANGED <<lockVars, wchVars, runVars, jmapVars, tagVars, startVars>>

\* Next() has an event to return / has stop to return.
NextHasEvent == wq # <<>> /\ ~wclosed /\ ~werr
NextStops == wclosed \/ werr

\* Close(): idempotent.
WatcherClose ==
    /\ wclosed' = TRUE
    /\ closeCalls' = closeCalls + 1
    /\ UNCHANGED <<wq, werr>>

\* ------------------------------------------ consumeResponses: ingestion

\* for w.Next() { event := w.Event(); ...
IngestNext ==
    /\ Running /\ prog = "nconfigd" /\ ipc = "next"
    /\ NextHasEvent
    /\ event' = Head(wq)
    /\ wq' = Tail(wq)
    /\ ipc' = "send"
    /\ busyTaken' = IF cpc = "run" THEN busyTaken + 1 ELSE busyTaken
    /\ UNCHANGED <<prog, proc, wclosed, werr, closeCalls, key, keys, timerVars, cpc,
                   aKeys, dobVars, tokenVars, hpc, gLast, fireObs, bAge, sigInRun,
                   burstObs>>
    /\ UNCHANGED <<lockVars, wchVars, runVars, jmapVars, tagVars, startVars>>

\* The send on `key` can proceed: the channel has room.
KeyUnbounded == TRUE
KeyHasRoom == Len(key) < ChanCap

\* ... key <- event.Key }
IngestSend ==
    /\ Running /\ prog = "nconfigd" /\ ipc = "send"
    /\ KeyHasRoom
    /\ key' = Append(key, event)
    /\ ipc' = "next"
    /\ event' = 0
    /\ UNCHANGED <<prog, proc, watcherVars, keys, timerVars, cpc, aKeys, dobVars,
                   tokenVars, hpc, gLast, fireObs, bAge, sigInRun, busyTaken,
                   burstObs>>
    /\ UNCHANGED <<lockVars, wchVars, runVars, jmapVars, tagVars, startVars>>

\* Next() returned false: if err := w.Err(); err != nil { log.Fatal }
IngestStop ==
    /\ Running /\ prog = "nconfigd" /\ ipc = "next"
    /\ NextStops
    /\ IF werr THEN proc' = "watcherFailed" /\ ipc' = ipc
               ELSE proc' = proc /\ ipc' = "done"
    /\ UNCHANGED <<prog, watcherVars, event, key, keys, timerVars, cpc, aKeys, dobVars,
                   tokenVars, hpc, gLast, fireObs, bAge, sigInRun, busyTaken,
                   burstObs>>
    /\ UNCHANGED <<lockVars, wchVars, runVars, jmapVars, tagVars, startVars>>

\* ------------------------------------------- consumeResponses: consumer

\* The quiet timer after the key case: timer.Reset(100 * time.Millisecond).
KeyCaseTimerOnce == IF timer > 0 THEN timer ELSE Quiet
KeyCaseTimer == Quiet

\* The max timer after the key case: armed only on the first key of a batch.
KeyCaseMaxEveryKey == MaxWait
KeyCaseMax == IF maxStopped THEN MaxWait ELSE max

\* case k := <-key:
RecvKey ==
    /\ Running /\ prog = "nconfigd" /\ cpc = "select"
    /\ key # <<>>
    /\ key' = Tail(key)
    /\ timer' = KeyCaseTimer
    /\ max' = KeyCaseMax
    /\ bAge' = IF maxStopped THEN 0 ELSE bAge
    /\ maxStopped' = FALSE
    /\ keys' = keys \cup {Head(key)}
    /\ UNCHANGED <<prog, proc, watcherVars, ingestVars, timerC, maxC, cpc, aKeys, dobVars,
                   tokenVars, hpc, gLast, fireObs, sigInRun, busyTaken, burstObs>>
    /\ UNCHANGED <<lockVars, wchVars, runVars, jmapVars, tagVars, startVars>>

\* case <-max.C: if !timer.Stop() { <-timer.C }
RecvMax ==
    /\ Running /\ prog = "nconfigd" /\ cpc = "select"
    /\ maxC = 1
    /\ maxC' = 0
    /\ timer' = 0
    /\ IF timer > 0 THEN cpc' = "take" /\ maxStopped' = TRUE
                    ELSE cpc' = "drainTimer" /\ maxStopped' = maxStopped
    /\ UNCHANGED <<prog, proc, watcherVars, ingestVars, key, keys, timerC, max, aKeys,
                   dobVars, tokenVars, hpc, gLast, fireObs, bAge, sigInRun, busyTaken,
                   burstObs>>
    /\ UNCHANGED <<lockVars, wchVars, runVars, jmapVars, tagVars, startVars>>

\* case <-timer.C: if !max.Stop() { <-max.C }
RecvTimer ==
    /\ Running /\ prog = "nconfigd" /\ cpc = "select"
    /\ timerC = 1
    /\ timerC' = 0
    /\ max' = 0
    /\ IF max > 0 THEN cpc' = "take" /\ maxStopped' = TRUE
                  ELSE cpc' = "drainMax" /\ maxStopped' = maxStopped
    /\ UNCHANGED <<prog, proc, watcherVars, ingestVars, key, keys, timer, maxC, aKeys,
                   dobVars, tokenVars, hpc, gLast, fireObs, bAge, sigInRun, busyTaken,
                   burstObs>>
    /\ UNCHANGED <<lockVars, wchVars, runVars, jmapVars, tagVars, startVars>>

\* <-timer.C after timer.Stop() returned false
DrainTimer ==
    /\ Running /\ prog = "nconfigd" /\ cpc = "drainTimer"
    /\ timerC = 1
    /\ timerC' = 0
    /\ cpc' = "take" /\ maxStopped' = TRUE
    /\ UNCHANGED <<prog, proc, watcherVars, ingestVars, key, keys, timer, max, maxC,
                   aKeys, dobVars, tokenVars, hpc, gLast, fireObs, bAge, sigInRun,
                   busyTaken, burstObs>>
    /\ UNCHANGED <<lockVars, wchVars, runVars, jmapVars, tagVars, startVars>>

\* <-max.C after max.Stop() returned false
DrainMax ==
    /\ Running /\ prog = "nconfigd" /\ cpc = "drainMax"
    /\ maxC = 1
    /\ maxC' = 0
    /\ cpc' = "take" /\ maxStopped' = TRUE
    /\ UNCHANGED <<prog, proc, watcherVars, ingestVars, key, keys, timer, timerC, max,
                   aKeys, dobVars, tokenVars, hpc, gLast, fireObs, bAge, sigInRun,
                   busyTaken, burstObs>>
    /\ UNCHANGED <<lockVars, wchVars, runVars, jmapVars, tagVars, startVars>>

\* done := <-ready; aKeys := the keys of the map; runAnsible(config, eaddr, aKeys...)
TakeReady ==
    /\ Running /\ prog = "nconfigd" /\ cpc = "take"
    /\ ready > 0
    /\ ready' = ready - 1
    /\ done' = TRUE
    /\ aKeys' = keys
    /\ cpc' = "run"
    /\ sinceFire' = 0
    /\ contFire' = (track /\ gLast < Quiet)
    /\ busyTaken' = 0
    /\ IF nBurst > 0
         THEN /\ sFires' = Min(sFires + 1, 2)
              /\ sGot' = IF sFires = 0 THEN keys ELSE sGot
         ELSE UNCHANGED <<sFires, sGot>>
    /\ UNCHANGED <<prog, proc, watcherVars, ingestVars, key, keys, timerVars, dobVars, hpc,
                   track, gLast, bAge, sigInRun, nBurst, sDur, sLate>>
    /\ UNCHANGED <<lockVars, wchVars, runVars, jmapVars, tagVars, startVars>>

\* cmd.Run() returned nil: runAnsible returns.
AnsibleOk ==
    /\ Running /\ prog = "nconfigd" /\ cpc = "run"
    /\ cpc' = "put"
    /\ busyTaken' = 0
    /\ UNCHANGED <<prog, proc, watcherVars, ingestVars, key, keys, timerVars, aKeys,
                   dobVars, tokenVars, hpc, gLast, fireObs, bAge, sigInRun, burstObs>>
    /\ UNCHANGED <<lockVars, wchVars, runVars, jmapVars, tagVars, startVars>>

\* cmd.Run() returned an error: log.Fatal("ansible run failed").
AnsibleFail ==
    /\ Running /\ prog = "nconfigd" /\ cpc = "run"
    /\ proc' = "ansibleFailed"
    /\ UNCHANGED <<prog, watcherVars, ingestVars, key, keys, timerVars, cpc, aKeys,
                   dobVars, tokenVars, hpc, gLast, fireObs, bAge, sigInRun, busyTaken,
                   burstObs>>
    /\ UNCHANGED <<lockVars, wchVars, runVars, jmapVars, tagVars, startVars>>

\* The channel `ready` after the worker's send.
ReadyNotReturned == ready
ReadyAfterPut == ready + 1

\* ready <- done
PutReady ==
    /\ Running /\ prog = "nconfigd" /\ cpc = "put"
    /\ ready < ChanCap
    /\ ready' = ReadyAfterPut
    /\ done' = FALSE
    /\ cpc' = "clear"
    /\ UNCHANGED <<prog, proc, watcherVars, ingestVars, key, keys, timerVars, aKeys,
                   dobVars, hpc, gLast, fireObs, bAge, sigInRun, busyTaken, burstObs>>
    /\ UNCHANGED <<lockVars, wchVars, runVars, jmapVars, tagVars, startVars>>

\* keys = map[string]struct{}{}
ClearKeys ==
    /\ Running /\ prog = "nconfigd" /\ cpc = "clear"
    /\ keys' = {}
    /\ aKeys' = {}
    /\ cpc' = "select"
    /\ UNCHANGED <<prog, proc, watcherVars, ingestVars, key, timerVars, dobVars,
                   tokenVars, hpc, gLast, fireObs, bAge, sigInRun, busyTaken,
                   burstObs>>
    /\ UNCHANGED <<lockVars, wchVars, runVars, jmapVars, tagVars, startVars>>

\* ------------------------------------------------ dobharchu: event loop

\* for w.Next() {
DobNext ==
    /\ Running /\ prog = "dobharchu" /\ dpc = "next"
    /\ NextHasEvent
    /\ event' = Head(wq)
    /\ wq' = Tail(wq)
    /\ dpc' = "take"
    /\ UNCHANGED <<updErr, prog, proc, wclosed, werr, closeCalls, ipc, key, keys, timerVars,
                   cpc, aKeys, tokenVars, hpc, gLast, fireObs, bAge, sigInRun,
                   busyTaken, burstObs>>
    /\ UNCHANGED <<lockVars, wchVars, runVars, jmapVars, tagVars, startVars>>

\* Next() returned false: if err := w.Err(); err != nil { log.Fatal };
\* otherwise main goes on to signal.Notify and s := <-sigs
DobStop ==
    /\ Running /\ prog = "dobharchu" /\ dpc = "next"
    /\ NextStops
    /\ IF werr THEN proc' = "watcherFailed" /\ UNCHANGED <<dpc, hpc>>
               ELSE proc' = proc /\ dpc' = "end" /\ hpc' = "sigwait"
    /\ UNCHANGED <<updErr, prog, watcherVars, ingestVars, key, keys, timerVars, cpc, aKeys,
                   tokenVars, gLast, fireObs, bAge, sigInRun, busyTaken, burstObs>>
    /\ UNCHANGED <<lockVars, wchVars, runVars, jmapVars, tagVars, startVars>>

\* done := <-ready
DobTake ==
    /\ Running /\ prog = "dobharchu" /\ dpc = "take"
    /\ ready > 0
    /\ ready' = ready - 1
    /\ done' = TRUE
    /\ dpc' = "integrate"
    /\ updErr' = FALSE
    /\ UNCHANGED <<prog, proc, watcherVars, ingestVars, key, keys, timerVars, cpc,
                   aKeys, hpc, gLast, fireObs, bAge, sigInRun, busyTaken, burstObs>>
    /\ UNCHANGED <<lockVars, wchVars, runVars, jmapVars, tagVars, startVars>>

\* refresh, err := f.IntegrateResponse(w.Response())
DobIntegrate ==
    /\ Running /\ prog = "dobharchu" /\ dpc = "integrate"
    /\ \E err \in BOOLEAN, refresh \in BOOLEAN :
          dpc' = IF err THEN "fetch" ELSE IF refresh THEN "update" ELSE "put"
    /\ UNCHANGED <<updErr, prog, proc, watcherVars, ingestVars, key, keys, timerVars, cpc,
                   aKeys, tokenVars, hpc, gLast, fireObs, bAge, sigInRun, busyTaken,
                   burstObs>>
    /\ UNCHANGED <<lockVars, wchVars, runVars, jmapVars, tagVars, startVars>>

\* err := f.FetchAll(); if err != nil { os.Exit(1) }; refresh = true
DobFetch ==
    /\ Running /\ prog = "dobharchu" /\ dpc = "fetch"
    /\ \E err \in BOOLEAN :
          IF err THEN proc' = "fetchFailed" /\ dpc' = dpc
                 ELSE proc' = proc /\ dpc' = "update"
    /\ UNCHANGED <<updErr, prog, watcherVars, ingestVars, key, keys, timerVars, cpc, aKeys,
                   tokenVars, hpc, gLast, fireObs, bAge, sigInRun, busyTaken,
                   burstObs>>
    /\ UNCHANGED <<lockVars, wchVars, runVars, jmapVars, tagVars, startVars>>

\* _ = updateConfigs(f, r, hconfPath, gconfPath): its error is dropped
DobUpdate ==
    /\ Running /\ prog = "dobharchu" /\ dpc = "update"
    /\ \E err \in BOOLEAN : updErr' = err
    /\ dpc' = "put"
    /\ UNCHANGED <<prog, proc, watcherVars, ingestVars, key, keys, timerVars, cpc,
                   aKeys, tokenVars, hpc, gLast, fireObs, bAge, sigInRun, busyTaken,
                   burstObs>>
    /\ UNCHANGED <<lockVars, wchVars, runVars, jmapVars, tagVars, startVars>>

\* ready <- done
DobPut ==
    /\ Running /\ prog = "dobharchu" /\ dpc = "put"
    /\ ready < ChanCap
    /\ ready' = ReadyAfterPut
    /\ done' = FALSE
    /\ dpc' = "next"
    /\ updErr' = updErr
    /\ UNCHANGED <<prog, proc, watcherVars, ingestVars, key, keys, timerVars, cpc,
                   aKeys, hpc, gLast, fireObs, bAge, sigInRun, busyTaken, burstObs>>
    /\ UNCHANGED <<lockVars, wchVars, runVars, jmapVars, tagVars, startVars>>

\* SIGINT or SIGTERM before signal.Notify was called: the runtime's default
\* handler ends the process.
DobKilled ==
    /\ Running /\ prog = "dobharchu" /\ hpc = "loop"
    /\ proc' = "killed"
    /\ UNCHANGED <<prog, watcherVars, ingestVars, key, keys, timerVars, cpc, aKeys,
                   dpc, updErr, tokenVars, hpc, gLast, fireObs, bAge, sigInRun,
                   busyTaken, burstObs>>
    /\ UNCHANGED <<lockVars, wchVars, runVars, jmapVars, tagVars, startVars>>

\* --------------------------------------------------- main: clean shutdown

\* s := <-sigs, once signal.Notify(sigs, os.Interrupt, syscall.SIGTERM) was called
Signal ==
    /\ Running /\ hpc = "sigwait"
    /\ hpc' = "take"
    /\ sigInRun' = (cpc = "run")
    /\ UNCHANGED <<prog, proc, watcherVars, ingestVars, key, keys, timerVars, cpc,
                   aKeys, dobVars, tokenVars, gLast, fireObs, bAge, busyTaken, burstObs>>
    /\ UNCHANGED <<lockVars, wchVars, runVars, jmapVars, tagVars, startVars>>

\* <-ready: wait until any current processing is finished
MainTakeNoWait == TRUE
MainTakeGuard == ready > 0

MainTake ==
    /\ Running /\ hpc = "take"
    /\ MainTakeGuard
    /\ ready' = IF ready > 0 THEN ready - 1 ELSE ready
    /\ hpc' = "close"
    /\ UNCHANGED <<prog, proc, watcherVars, ingestVars, key, keys, timerVars, cpc,
                   aKeys, dobVars, done, gLast, fireObs, bAge, sigInRun, busyTaken,
                   burstObs>>
    /\ UNCHANGED <<lockVars, wchVars, runVars, jmapVars, tagVars, startVars>>

\* _ = w.Close()
MainClose ==
    /\ Running /\ hpc = "close"
    /\ WatcherClose
    /\ hpc' = "return"
    /\ UNCHANGED <<prog, proc, ingestVars, key, keys, timerVars, cpc, aKeys, dobVars,
                   tokenVars, gLast, fireObs, bAge, sigInRun, busyTaken, burstObs>>
    /\ UNCHANGED <<lockVars, wchVars, runVars, jmapVars, tagVars, startVars>>

\* log.Info("exiting"); main returns and the process ends
MainReturn ==
    /\ Running /\ hpc = "return"
    /\ proc' = "exit0"
    /\ UNCHANGED <<prog, watcherVars, ingestVars, key, keys, timerVars, cpc, aKeys,
                   dobVars, tokenVars, hpc, gLast, fireObs, bAge, sigInRun, busyTaken,
                   burstObs>>
    /\ UNCHANGED <<lockVars, wchVars, runVars, jmapVars, tagVars, startVars>>

\* ------------------------------------------------------------------- time

\* A step of the program is enabled: it is taken before time passes.
Urgent ==
    \/ ipc = "next" /\ (NextHasEvent \/ NextStops)
    \/ ipc = "send" /\ KeyHasRoom
    \/ cpc = "select" /\ (key # <<>> \/ timerC = 1 \/ maxC = 1)
    \/ cpc = "drainTimer" /\ timerC = 1
    \/ cpc = "drainMax" /\ maxC = 1
    \/ cpc = "take" /\ ready > 0
    \/ cpc \in {"put", "clear"}
    \/ hpc = "take" /\ MainTakeGuard
    \/ hpc \in {"close", "return"}

Tick ==
    /\ Running /\ prog = "nconfigd"
    /\ ~Urgent
    /\ timer' = IF timer > 0 THEN timer - 1 ELSE 0
    /\ timerC' = IF timer = 1 THEN 1 ELSE timerC
    /\ max' = IF max > 0 THEN max - 1 ELSE 0
    /\ maxC' = IF max = 1 THEN 1 ELSE maxC
    /\ gLast' = IF track \/ nBurst > 0 THEN Min(gLast + 1, Quiet) ELSE gLast
    /\ contFire' = (contFire /\ gLast + 1 < Quiet)
    /\ sinceFire' = IF contFire' THEN Min(sinceFire + 1, MaxWait + 1) ELSE 0
    /\ bAge' = IF maxStopped THEN bAge ELSE Min(bAge + 1, MaxWait + 1)
    /\ sDur' = IF nBurst > 0 /\ gLast < Quiet THEN Min(sDur + 1, MaxWait + 1) ELSE sDur
    /\ UNCHANGED <<prog, proc, watcherVars, ingestVars, key, keys, maxStopped, cpc,
                   aKeys, dobVars, tokenVars, hpc, track, sigInRun, busyTaken, nBurst,
                   sLate, sFires, sGot>>
    /\ UNCHANGED <<lockVars, wchVars, runVars, jmapVars, tagVars, startVars>>

\* --------------------------------------------------------------- the Lock

Procs == 1..NProcs

\* The host names of the contenders.  Only their equality matters: a
\* contender runs on a host of its own or on the host of an earlier one.
Hosts == Procs
HostNames ==
    {h \in [Procs -> Hosts] :
        \A p \in Procs : h[p] = p \/ \E q \in 1..(p - 1) : h[q] = h[p] /\ h[q] = q}

\* The handle counts as a live holder: Held or Renewing, no Release() under way.
Live(p) == lst[p] \in {"Held", "Renewing"} /\ ~lrel[p]

\* The store expires the key, or deletes it for contender p: whoever else
\* created it has lost it.
Dropped(p) == [q \in Procs |-> IF q = owner /\ q # p THEN TRUE ELSE gone[q]]

\* The compare-and-swap create of Acquire succeeds: the key is absent.
CasCreateAlways == TRUE
CasCreateOk == kval = 0

\* A blocking Acquire watches the key and retries; a non-blocking one fails.
NeverWaits(p) == FALSE
AlwaysWaits(p) == TRUE
WaitsForKey(p) == lblock[p]

\* Acquire(key, value, ttl, blocking): the first compare-and-swap create.
AcquireCreate(p) ==
    /\ prog = "locker" /\ lst[p] = "Unheld"
    /\ IF CasCreateOk
         THEN /\ kval' = lval[p]
              /\ owner' = p
              /\ gone' = [gone EXCEPT ![p] = FALSE]
              /\ lst' = [lst EXCEPT ![p] = "Held"]
              /\ waited' = waited
         ELSE /\ lst' = [lst EXCEPT ![p] = IF WaitsForKey(p) THEN "Pending" ELSE "Failed"]
              /\ waited' = [waited EXCEPT ![p] = WaitsForKey(p)]
              /\ UNCHANGED <<kval, owner, gone>>
    /\ UNCHANGED <<daemonVars, runVars, jmapVars, tagVars, startVars, wchVars, lval, lblock, lrel, staleRenewed, deletedOther, again>>

\* The watch of a pending Acquire saw the key deleted or expired: it retries.
AcquireRetry(p) ==
    /\ prog = "locker" /\ lst[p] = "Pending"
    /\ CasCreateOk
    /\ kval' = lval[p]
    /\ owner' = p
    /\ gone' = [gone EXCEPT ![p] = FALSE]
    /\ lst' = [lst EXCEPT ![p] = "Held"]
    /\ UNCHANGED <<daemonVars, runVars, jmapVars, tagVars, startVars, wchVars, lval, lblock, lrel, staleRenewed, deletedOther, waited,
                   again>>

\* The caller cancels a pending Acquire: AcquireCanceled.
AcquireCancel(p) ==
    /\ prog = "locker" /\ lst[p] = "Pending"
    /\ lst' = [lst EXCEPT ![p] = "Canceled"]
    /\ UNCHANGED <<daemonVars, runVars, jmapVars, tagVars, startVars, wchVars, storeVars, lval, lblock, lrel, lockObs>>

\* The renewal task wakes up, ttl/2 after the last refresh.
RenewStart(p) ==
    /\ prog = "locker" /\ lst[p] = "Held"
    /\ lst' = [lst EXCEPT ![p] = "Renewing"]
    /\ UNCHANGED <<daemonVars, runVars, jmapVars, tagVars, startVars, wchVars, storeVars, lval, lblock, lrel, lockObs>>

\* The condition of the renewal's compare-and-swap: the stored value is this
\* holder's value.
RenewUnconditional(p) == TRUE
RenewCond(p) == kval = lval[p]

\* The renewal's compare-and-swap: refresh the expiry, or Lost.
RenewCAS(p) ==
    /\ prog = "locker" /\ lst[p] = "Renewing"
    /\ IF RenewCond(p)
         THEN /\ kval' = lval[p]
              /\ owner' = IF kval = lval[p] THEN owner ELSE p
              /\ gone' = IF kval = lval[p] THEN gone ELSE [Dropped(p) EXCEPT ![p] = FALSE]
              /\ staleRenewed' = (staleRenewed \/ (kval # 0 /\ owner # p))
              /\ lst' = [lst EXCEPT ![p] = "Held"]
         ELSE /\ lst' = [lst EXCEPT ![p] = "Lost"]
              /\ UNCHANGED <<kval, owner, gone, staleRenewed>>
    /\ UNCHANGED <<daemonVars, runVars, jmapVars, tagVars, startVars, wchVars, lval, lblock, lrel, deletedOther, waited, again>>

\* The condition of Release's compare-and-swap delete: value equality.
ReleaseCond(p) == kval = lval[p]

\* Release(): the compare-and-swap delete ...
ReleaseCAS(p) ==
    /\ prog = "locker" /\ lst[p] \in {"Held", "Renewing", "Lost"} /\ ~lrel[p]
    /\ lrel' = [lrel EXCEPT ![p] = TRUE]
    /\ IF ReleaseCond(p)
         THEN /\ kval' = 0
              /\ owner' = 0
              /\ gone' = Dropped(p)
              /\ deletedOther' = (deletedOther \/ owner # p)
         ELSE UNCHANGED <<kval, owner, gone, deletedOther>>
    /\ UNCHANGED <<daemonVars, runVars, jmapVars, tagVars, startVars, wchVars, lval, lblock, lst, staleRenewed, waited, again>>

\* ... then it stops the renewal task and the handle is Released.
ReleaseStop(p) ==
    /\ prog = "locker" /\ lrel[p]
    /\ lrel' = [lrel EXCEPT ![p] = FALSE]
    /\ lst' = [lst EXCEPT ![p] = "Released"]
    /\ UNCHANGED <<daemonVars, runVars, jmapVars, tagVars, startVars, wchVars, storeVars, lval, lblock, lockObs>>

\* Release() on a Released handle: idempotent.
ReleaseAgain(p) ==
    /\ prog = "locker" /\ lst[p] = "Released" /\ ~lrel[p] /\ ~again[p]
    /\ again' = [again EXCEPT ![p] = TRUE]
    /\ UNCHANGED <<daemonVars, runVars, jmapVars, tagVars, startVars, wchVars, storeVars, handleVars, gone, staleRenewed, deletedOther,
                   waited>>

\* The contender starts again with a new handle: locker is run anew.
NewHandle(p) ==
    /\ prog = "locker" /\ lst[p] \in {"Released", "Lost", "Failed", "Canceled"} /\ ~lrel[p]
    /\ lst' = [lst EXCEPT ![p] = "Unheld"]
    /\ gone' = [gone EXCEPT ![p] = FALSE]
    /\ waited' = [waited EXCEPT ![p] = FALSE]
    /\ again' = [again EXCEPT ![p] = FALSE]
    /\ UNCHANGED <<daemonVars, runVars, jmapVars, tagVars, startVars, wchVars, storeVars, lval, lblock, lrel, staleRenewed, deletedOther>>

\* The lease runs out: the store expires the key.
Expire ==
    /\ prog = "locker" /\ kval # 0
    /\ kval' = 0
    /\ owner' = 0
    /\ gone' = Dropped(0)
    /\ UNCHANGED <<daemonVars, runVars, jmapVars, tagVars, startVars, wchVars, handleVars, staleRenewed, deletedOther, waited, again>>

\* ------------------------------------------- the Watcher and its prefixes
\* The Watcher of section 4.1 of the design document with the store it
\* watches: the mutations of the store are numbered by the store's index, a
\* watch task per prefix follows them from its last-seen index, and the
\* caller takes the events from one queue with Next().  The daemons above see
\* this Watcher only through Next(), Event(), Err() and Close().

Prefixes == 1..NPrefixes

\* The indexes of the events under prefix x that a watch since index n can return.
EventsSince(x, n) == {i \in (n + 1)..sidx : hist[i] = x}

SetMin(S) == CHOOSE i \in S : \A j \in S : i <= j

\* A key under prefix x is created, updated, deleted or expires.
StoreMutate(x) ==
    /\ prog = "watcher" /\ sidx < MaxIndex
    /\ sidx' = sidx + 1
    /\ hist' = Append(hist, x)
    /\ UNCHANGED <<daemonVars, runVars, jmapVars, tagVars, startVars, lockVars, compacted, taskVars, wqueue, wcl, wer, npc, wev,
                   wchObs>>

\* The store discards the older part of its history.
StoreCompact ==
    /\ prog = "watcher"
    /\ \E c \in (compacted + 1)..sidx : compacted' = c
    /\ UNCHANGED <<daemonVars, runVars, jmapVars, tagVars, startVars, lockVars, sidx, hist, taskVars, wqueue, wcl, wer, npc, wev,
                   wchObs>>

\* The Watcher has neither been closed nor has it failed.
WatcherRuns == ~wcl /\ ~wer

\* Add(prefix): the prefix is watched from the store's current index.  On a
\* closed Watcher Add fails and registers nothing.
WatcherAdd(x) ==
    /\ prog = "watcher" /\ WatcherRuns
    /\ pst[x] = "None"
    /\ pst' = [pst EXCEPT ![x] = "Active"]
    /\ cur' = [cur EXCEPT ![x] = sidx]
    /\ UNCHANGED <<daemonVars, runVars, jmapVars, tagVars, startVars, lockVars, kvVars, retries, wqueue, wcl, wer, npc, wev, wchObs>>

\* The index the task of prefix x watches from: its last-seen index.
SinceIndex(x) == cur[x]

\* The history after the last-seen index is still in the store.
InHistory(x) == SinceIndex(x) >= compacted

\* The queue after a task forwarded event e: events leave it in the order
\* they were forwarded.
EnqueueFront(e) == <<e>> \o wqueue
Enqueue(e) == Append(wqueue, e)

\* "watch since index N" returns the next event under the prefix: the task
\* advances N and forwards the event to the queue.
WatchTaskEvent(x) ==
    /\ prog = "watcher" /\ WatcherRuns
    /\ pst[x] = "Active" /\ InHistory(x)
    /\ EventsSince(x, SinceIndex(x)) # {}
    /\ LET i == SetMin(EventsSince(x, SinceIndex(x)))
       IN  /\ cur' = [cur EXCEPT ![x] = i]
           /\ wqueue' = Enqueue(<<x, i>>)
    /\ retries' = [retries EXCEPT ![x] = 0]
    /\ UNCHANGED <<daemonVars, runVars, jmapVars, tagVars, startVars, lockVars, kvVars, pst, wcl, wer, npc, wev, wchObs>>

\* "watch since index N" fails with IndexStale: the store has compacted the
\* history after N.
WatchTaskStale(x) ==
    /\ prog = "watcher" /\ WatcherRuns
    /\ pst[x] = "Active" /\ ~InHistory(x)
    /\ pst' = [pst EXCEPT ![x] = "Stale"]
    /\ UNCHANGED <<daemonVars, runVars, jmapVars, tagVars, startVars, lockVars, kvVars, cur, retries, wqueue, wcl, wer, npc, wev,
                   wchObs>>

\* The resync: the task re-reads the store's current index and resumes from
\* it; the events in between are not replayed.
ResyncIndex == sidx

WatchTaskResync(x) ==
    /\ prog = "watcher" /\ WatcherRuns
    /\ pst[x] = "Stale"
    /\ cur' = [cur EXCEPT ![x] = ResyncIndex]
    /\ pst' = [pst EXCEPT ![x] = "Active"]
    /\ lost' = IF EventsSince(x, cur[x]) # {} THEN lost \cup {x} ELSE lost
    /\ UNCHANGED <<daemonVars, runVars, jmapVars, tagVars, startVars, lockVars, kvVars, retries, wqueue, wcl, wer, npc, wev,
                   dl, crossed, wcloses, exhausted>>

\* Every task of the Watcher is terminated.
TasksLeft == pst
TasksHalted == [x \in Prefixes |-> IF pst[x] = "None" THEN "None" ELSE "Closed"]

\* A call to the store fails with a transport error: the task retries, and
\* when its attempts are exhausted the Watcher halts all tasks with a
\* terminal error.
WatchTaskError(x) ==
    /\ prog = "watcher" /\ WatcherRuns
    /\ pst[x] \in {"Active", "Stale"}
    /\ IF retries[x] < MaxRetries
         THEN /\ retries' = [retries EXCEPT ![x] = retries[x] + 1]
              /\ UNCHANGED <<pst, wer, exhausted>>
         ELSE /\ wer' = TRUE
              /\ exhausted' = TRUE
              /\ pst' = TasksHalted
              /\ UNCHANGED retries
    /\ UNCHANGED <<daemonVars, runVars, jmapVars, tagVars, startVars, lockVars, kvVars, cur, wqueue, wcl, npc, wev,
                   dl, crossed, wcloses, lost>>

\* Next() is called and suspends the caller.
WatcherNextCall ==
    /\ prog = "watcher"
    /\ npc \in {"idle", "stopped"}
    /\ npc' = "pending"
    /\ UNCHANGED <<daemonVars, runVars, jmapVars, tagVars, startVars, lockVars, kvVars, taskVars, wqueue, wcl, wer, wev, wchObs>>

\* Next() signals stop: the Watcher is closed or has failed.
PendingForever == wer
WatcherStops == wcl \/ wer

\* Err(): the terminal error.
WatcherErr == wer

\* Next() returns: stop when the Watcher is closed or has failed, else
\* continue with the head of the queue as Event().
WatcherNextReturn ==
    /\ prog = "watcher"
    /\ npc = "pending"
    /\ IF WatcherStops
         THEN /\ npc' = "stopped"
              /\ UNCHANGED <<wqueue, wev, wchObs>>
         ELSE /\ wqueue # <<>>
              /\ npc' = "idle"
              /\ wev' = Head(wqueue)
              /\ wqueue' = Tail(wqueue)
              /\ dl' = [dl EXCEPT ![Head(wqueue)[1]] = Head(wqueue)[2]]
              /\ crossed' = (crossed \/ Head(wqueue)[2] < wev[2])
              /\ UNCHANGED <<wcloses, lost, exhausted>>
    /\ UNCHANGED <<daemonVars, runVars, jmapVars, tagVars, startVars, lockVars, kvVars, taskVars, wcl, wer>>

\* Close(): terminates the watch tasks and unblocks Next(); a second call
\* finds the Watcher closed.
WatcherCloseCall ==
    /\ prog = "watcher"
    /\ wcloses < 2
    /\ wcl' = TRUE
    /\ pst' = TasksHalted
    /\ wcloses' = wcloses + 1
    /\ UNCHANGED <<daemonVars, runVars, jmapVars, tagVars, startVars, lockVars, kvVars, cur, retries, wqueue, wer, npc, wev,
                   dl, crossed, lost, exhausted>>

\* ------------------------------------------------------ locker: one run
\* main and cmdrun of locker, with the service that cmdrun starts.  The lock
\* is the Lock above: this run is contender Self, the others take and
\* release the same key.

Self == 1

LockerRuns == prog = "locker" /\ lproc = "running"

\* l, err := lock.Acquire(c, params.Key, hostname, params.TTL, params.Blocking):
\* the call creates the key, or fails, or waits and retries.
LockerAcquire ==
    /\ LockerRuns /\ mpc = "acquire"
    /\ AcquireCreate(Self) \/ AcquireRetry(Self)

\* Acquire returned a lock (err == nil).
SpawnAlways == TRUE
SpawnIfHeld == lst[Self] \in {"Held", "Renewing", "Lost"}

\* Acquire has returned: on an error log.Fatal("failed to get lock");
\* otherwise params.Lock = l and json.Marshal(&params), log.Fatal on its error.
LockerAcquired ==
    /\ LockerRuns /\ mpc = "acquire"
    /\ lst[Self] \notin {"Unheld", "Pending"}
    /\ IF ~SpawnIfHeld
         THEN lproc' = "lockFailed" /\ mpc' = mpc
         ELSE \E err \in BOOLEAN :
                 IF err THEN lproc' = "marshalFailed" /\ mpc' = mpc
                        ELSE lproc' = lproc /\ mpc' = "go"
    /\ UNCHANGED <<daemonVars, lockVars, wchVars, jmapVars, tagVars, startVars, rpc, svc>>

\* The renewal task of the lock this run holds.
LockerRenew ==
    /\ LockerRuns
    /\ RenewStart(Self) \/ RenewCAS(Self)

\* go cmdrun(cmddone, params.ID, params.TTL, "/usr/bin/locker", base, string(args))
LockerGo ==
    /\ LockerRuns /\ mpc = "go"
    /\ mpc' = "notify"
    /\ rpc' = "start"
    /\ UNCHANGED <<daemonVars, lockVars, wchVars, jmapVars, tagVars, startVars, lproc, svc>>

\* signal.Notify(sigs, os.Interrupt, syscall.SIGTERM)
LockerNotify ==
    /\ LockerRuns /\ mpc = "notify"
    /\ mpc' = "select"
    /\ UNCHANGED <<daemonVars, lockVars, wchVars, jmapVars, tagVars, startVars, lproc, rpc, svc>>

\* SIGINT or SIGTERM before signal.Notify was called: the runtime's default
\* handler ends the process.
LockerKilled ==
    /\ LockerRuns /\ mpc \in {"acquire", "go", "notify"}
    /\ lproc' = "killed"
    /\ UNCHANGED <<daemonVars, lockVars, wchVars, jmapVars, tagVars, startVars, mpc, rpc, svc>>

\* case <-sigs: log.Println("got a sig")
LockerSignal ==
    /\ LockerRuns /\ mpc = "select"
    /\ mpc' = "send"
    /\ UNCHANGED <<daemonVars, lockVars, wchVars, jmapVars, tagVars, startVars, lproc, rpc, svc>>

\* exited, err := startService(ttl, target, cmd, base, arg); log.Fatal(err)
\* on its error
CmdStart ==
    /\ LockerRuns /\ rpc = "start"
    /\ \E err \in BOOLEAN :
          IF err THEN lproc' = "startFailed" /\ UNCHANGED <<rpc, svc>>
                 ELSE lproc' = lproc /\ rpc' = "select" /\ svc' = "running"
    /\ UNCHANGED <<daemonVars, lockVars, wchVars, jmapVars, tagVars, startVars, mpc>>

\* The unit becomes inactive or fails: monService sends on its channel.
ServiceExits ==
    /\ LockerRuns /\ svc = "running"
    /\ svc' = "exited"
    /\ UNCHANGED <<daemonVars, lockVars, wchVars, jmapVars, tagVars, startVars, lproc, mpc, rpc>>

\* cmdrun, case <-exited: it goes on to done <- struct{}{}
CmdExited ==
    /\ LockerRuns /\ rpc = "select" /\ svc = "exited"
    /\ rpc' = "send"
    /\ svc' = "reported"
    /\ UNCHANGED <<daemonVars, lockVars, wchVars, jmapVars, tagVars, startVars, lproc, mpc>>

\* main's cmddone <- struct{}{} meets cmdrun's case <-done
HandoffSignal ==
    /\ LockerRuns /\ mpc = "send" /\ rpc = "select"
    /\ mpc' = "recv"
    /\ rpc' = "stop"
    /\ UNCHANGED <<daemonVars, lockVars, wchVars, jmapVars, tagVars, startVars, lproc, svc>>

\* stopService(target), its error dropped; cmdrun goes on to done <- struct{}{}
CmdStop ==
    /\ LockerRuns /\ rpc = "stop"
    /\ \E err \in BOOLEAN :
          svc' = IF svc = "running" /\ ~err THEN "stopped" ELSE svc
    /\ rpc' = "send"
    /\ UNCHANGED <<daemonVars, lockVars, wchVars, jmapVars, tagVars, startVars, lproc, mpc>>

\* cmdrun's done <- struct{}{} meets main's <-cmddone, in the select
\* ("cmd is done") or after main's send; main then returns.
HandoffDone ==
    /\ LockerRuns /\ rpc = "send" /\ mpc \in {"select", "recv"}
    /\ rpc' = "end"
    /\ mpc' = "return"
    /\ UNCHANGED <<daemonVars, lockVars, wchVars, jmapVars, tagVars, startVars, lproc, svc>>

\* main returns and the process ends.
LockerReturn ==
    /\ LockerRuns /\ mpc = "return"
    /\ lproc' = "exit0"
    /\ UNCHANGED <<daemonVars, lockVars, wchVars, jmapVars, tagVars, startVars, mpc, rpc, svc>>

\* -------------------------------------------------------------- jmap.ID
\* jmap is map[string]interface{}: a map from some of the keys to JSON
\* values, of which only the strings pass the assertion .(string).

JKeys == {"id", "foo", "name"}
JStrings == {"", "asdf", "a"}
JValues == [t : {"string"}, s : JStrings] \cup [t : {"number"}, s : {"7"}]
JMaps == UNION {[D -> JValues] : D \in SUBSET JKeys}

\* j["id"]: the value under "id", the nil interface when there is none.
Lookup(j, k) == IF k \in DOMAIN j THEN j[k] ELSE [t |-> "nil", s |-> ""]

\* The assertion v.(string) without the ok result: the string, or a panic.
AssertLenient(v) == [st |-> "ok", val |-> IF v.t = "string" THEN v.s ELSE ""]
AssertString(v) ==
    IF v.t = "string" THEN [st |-> "ok", val |-> v.s] ELSE [st |-> "panic", val |-> ""]

\* func (j jmap) ID() string { return j["id"].(string) }
ID(j) == AssertString(Lookup(j, "id"))

\* A call of ID() on the map.
CallID ==
    /\ prog = "cli" /\ idr.st = "none"
    /\ idr' = ID(jm)
    /\ UNCHANGED <<daemonVars, lockVars, wchVars, runVars, tagVars, startVars, jm>>

\* ---------------------------------------------------- getTags, runAnsible
\* Keys and configured prefixes are strings, here sequences of characters,
\* a key being up to one character longer than the longest configured prefix;
\* a tag list is a sequence of tag names, TagOrder being the names in the
\* order of sort.Strings.

Chars == {"a", "b"}
TagOrder == <<"t1", "t2">>
Range(f) == {f[i] : i \in DOMAIN f}
Paths == UNION {[1..n -> Chars] : n \in 1..MaxPath + 1}
TagLists == UNION {[1..n -> Range(TagOrder)] : n \in 0..Len(TagOrder)}
Configs ==
    UNION {[D -> TagLists] :
             D \in {E \in SUBSET {w \in Paths : Len(w) <= MaxPath} : Cardinality(E) <= MaxEntries}}

\* The batches: the keys of the map `keys` in the order of its iteration.
Batches ==
    {b \in UNION {[1..n -> Paths] : n \in 0..MaxBatch} :
        \A i, j \in DOMAIN b : i # j => b[i] # b[j]}

\* strings.HasPrefix(key, watchPrefix)
HasPrefix(k, w) == Len(w) <= Len(k) /\ \A i \in 1..Len(w) : k[i] = w[i]

\* The results getTags(cfg, k) can return: the entry of k itself; else the
\* entry of a prefix of k, whichever the iteration of the map comes to
\* first; else nil.
MatchingPrefixes(cfg, k) == {w \in DOMAIN cfg : HasPrefix(k, w)}
getTags(cfg, k) ==
    IF k \in DOMAIN cfg THEN {[nil |-> FALSE, tags |-> cfg[k]]}
    ELSE IF MatchingPrefixes(cfg, k) # {}
      THEN {[nil |-> FALSE, tags |-> cfg[w]] : w \in MatchingPrefixes(cfg, k)}
      ELSE {[nil |-> TRUE, tags |-> <<>>]}

\* The tag set when a key has no tags: emptied, and the loop is left.
KeepTags(acc) == acc
ResetTags(acc) == {}

\* The loop of runAnsible over keys[i..]: the tag set it ends with.
RECURSIVE TagSet(_, _, _, _)
TagSet(ks, y, i, acc) ==
    IF i > Len(ks) THEN acc
    ELSE IF Len(y[ks[i]].tags) = 0 THEN ResetTags(acc)
    ELSE TagSet(ks, y, i + 1, acc \cup Range(y[ks[i]].tags))

\* sort.Strings of the tags of the set
Rank(t) == CHOOSE i \in DOMAIN TagOrder : TagOrder[i] = t
RECURSIVE SortTags(_)
SortTags(S) ==
    IF S = {} THEN <<>>
    ELSE LET t == CHOOSE u \in S : \A v \in S : Rank(u) <= Rank(v)
         IN  <<t>> \o SortTags(S \ {t})

\* args: "--kv", kvaddr, then "-t", tag for every tag
RECURSIVE TagArgs(_)
TagArgs(ts) == IF ts = <<>> THEN <<>> ELSE <<"-t", Head(ts)>> \o TagArgs(Tail(ts))
AnsibleArgs(ks, y) == <<"--kv", "kvaddr">> \o TagArgs(SortTags(TagSet(ks, y, 1, {})))

\* runAnsible(config, kvaddr, keys...) up to cmd.Run()
RunAnsible ==
    /\ prog = "tags" /\ args = <<>>
    /\ \E y \in [Range(bkeys) -> UNION {getTags(config, k) : k \in Range(bkeys)}] :
          /\ \A k \in Range(bkeys) : y[k] \in getTags(config, k)
          /\ yields' = y
          /\ args' = AnsibleArgs(bkeys, y)
    /\ UNCHANGED <<daemonVars, lockVars, wchVars, runVars, jmapVars, startVars, config, bkeys, calls>>

\* One more call getTags(config, bkeys[1]).
CallGetTags ==
    /\ prog = "tags" /\ bkeys # <<>> /\ Len(calls) < MaxCalls
    /\ \E r \in getTags(config, bkeys[1]) : calls' = Append(calls, r)
    /\ UNCHANGED <<daemonVars, lockVars, wchVars, runVars, jmapVars, startVars, config, bkeys, yields, args>>

\* ------------------------------------------------- dobharchu: the start
\* main of dobharchu from its first FetchAll on, with the Watcher and the
\* store above: FetchAll reads the store as it is, IntegrateResponse applies
\* one event to what was fetched, updateConfigs writes it to the files.

\* err := f.FetchAll(); if err != nil { os.Exit(1) }
StartFetch ==
    /\ prog = "watcher" /\ spc = "fetch"
    /\ \/ spc' = "exit" /\ UNCHANGED fstate
       \/ spc' = "update" /\ fstate' = 1..sidx
    /\ UNCHANGED <<daemonVars, lockVars, wchVars, runVars, jmapVars, tagVars, written>>

\* updateConfigs: at the start its error ends the process, in the loop it
\* is dropped.
StartUpdate ==
    /\ prog = "watcher" /\ spc \in {"update", "refresh"}
    /\ \/ written' = fstate /\ spc' = "watch"
       \/ UNCHANGED written /\ spc' = IF spc = "update" THEN "exit" ELSE "watch"
    /\ UNCHANGED <<daemonVars, lockVars, wchVars, runVars, jmapVars, tagVars, fstate>>

\* for _, prefix := range prefixes { w.Add(prefix) }: the next prefix of the
\* array is added.
StartAdd(x) ==
    /\ spc = "watch"
    /\ \A y \in Prefixes : y < x <=> pst[y] # "None"
    /\ WatcherAdd(x)

\* for w.Next(): all prefixes are added and the last event is integrated.
StartNext ==
    /\ spc = "watch" /\ npc = "idle"
    /\ \A y \in Prefixes : pst[y] # "None"
    /\ wev[2] = 0 \/ wev[2] \in fstate
    /\ WatcherNextCall

\* f.IntegrateResponse(w.Response()); on its error FetchAll again.
StartIntegrate ==
    /\ prog = "watcher" /\ spc = "watch" /\ npc = "idle"
    /\ wev[2] # 0 /\ wev[2] \notin fstate
    /\ \/ spc' = "refresh" /\ fstate' = fstate \cup {wev[2]}
       \/ spc' = "refresh" /\ fstate' = 1..sidx
       \/ spc' = "exit" /\ UNCHANGED fstate
    /\ UNCHANGED <<daemonVars, lockVars, wchVars, runVars, jmapVars, tagVars, written>>

\* ---------------------------------------------------------- specification

\* An empty store and a Watcher without prefixes.
InitWatcher ==
    /\ sidx = 0 /\ hist = <<>> /\ compacted = 0
    /\ pst = [x \in Prefixes |-> "None"]
    /\ cur = [x \in Prefixes |-> 0]
    /\ retries = [x \in Prefixes |-> 0]
    /\ wqueue = <<>> /\ wcl = FALSE /\ wer = FALSE
    /\ npc = "idle" /\ wev = <<0, 0>>
    /\ dl = [x \in Prefixes |-> 0]
    /\ crossed = FALSE /\ wcloses = 0 /\ lost = {} /\ exhausted = FALSE

InitProgram ==
    /\ proc = "running"
    /\ wq = <<>> /\ wclosed = FALSE /\ werr = FALSE /\ closeCalls = 0
    /\ event = 0 /\ updErr = FALSE
    /\ key = <<>> /\ keys = {}
    /\ timer = 0 /\ timerC = 0 /\ max = 0 /\ maxC = 0 /\ maxStopped = TRUE
    /\ aKeys = {}
    /\ ready = 1 /\ done = FALSE
    /\ gLast = Quiet /\ sinceFire = 0 /\ contFire = FALSE
    /\ bAge = 0 /\ sigInRun = FALSE /\ busyTaken = 0
    /\ nBurst = 0 /\ sDur = 0 /\ sLate = FALSE /\ sFires = 0 /\ sGot = {}
    /\ InitWatcher

\* No key in the store, no handle yet.
InitLock ==
    /\ kval = 0 /\ owner = 0
    /\ lst = [p \in Procs |-> "Unheld"]
    /\ lrel = [p \in Procs |-> FALSE]
    /\ gone = [p \in Procs |-> FALSE]
    /\ staleRenewed = FALSE /\ deletedOther = FALSE
    /\ waited = [p \in Procs |-> FALSE]
    /\ again = [p \in Procs |-> FALSE]

\* No locker is run.
NoRun == lproc = "running" /\ mpc = "none" /\ rpc = "none" /\ svc = "none"

\* ID() is not called.
NoCall == jm = <<>> /\ idr = [st |-> "none", val |-> ""]

\* dobharchu is not started.
NoStart == spc = "none" /\ fstate = {} /\ written = {}

\* Neither getTags nor runAnsible has been called.
NoTags == config = <<>> /\ bkeys = <<>> /\ yields = <<>> /\ args = <<>> /\ calls = <<>>

\* The daemons of this module do not take the lock.
NoLocker ==
    /\ NoRun /\ NoCall /\ NoTags /\ NoStart
    /\ InitLock
    /\ lval = [p \in Procs |-> 1]
    /\ lblock = [p \in Procs |-> FALSE]

InitNconfigd ==
    /\ InitProgram
    /\ prog = "nconfigd" /\ cpc = "select" /\ ipc = "next" /\ dpc = "none"
    /\ hpc = "sigwait"

InitDobharchu ==
    /\ InitProgram
    /\ prog = "dobharchu" /\ cpc = "none" /\ ipc = "none" /\ dpc = "next"
    /\ hpc = "loop"

Init == (InitNconfigd \/ InitDobharchu) /\ track = FALSE /\ NoLocker

Next ==
    \/ WatchDeliver \/ WatchFail
    \/ IngestNext \/ IngestSend \/ IngestStop
    \/ RecvKey \/ RecvMax \/ RecvTimer \/ DrainTimer \/ DrainMax
    \/ TakeReady \/ AnsibleOk \/ AnsibleFail \/ PutReady \/ ClearKeys
    \/ DobNext \/ DobStop \/ DobTake \/ DobIntegrate \/ DobFetch \/ DobUpdate
    \/ DobPut \/ DobKilled
    \/ Signal \/ MainTake \/ MainClose \/ MainReturn
    \/ Tick

Spec == Init /\ [][Next]_vars

\* One burst of events with distinct keys reaching an idle consumer; no
\* shutdown and no failure.
NextBurst ==
    \/ BurstDeliver
    \/ IngestNext \/ IngestSend
    \/ RecvKey \/ RecvMax \/ RecvTimer \/ DrainTimer \/ DrainMax
    \/ TakeReady \/ AnsibleOk \/ PutReady \/ ClearKeys
    \/ Tick

InitBurst == InitNconfigd /\ track = FALSE /\ NoLocker

SpecBurst == InitBurst /\ [][NextBurst]_vars

\* A stream of events reaching the consumer; no shutdown and no failure.
NextStream ==
    \/ WatchDeliver
    \/ IngestNext \/ IngestSend
    \/ RecvKey \/ RecvMax \/ RecvTimer \/ DrainTimer \/ DrainMax
    \/ TakeReady \/ AnsibleOk \/ PutReady \/ ClearKeys
    \/ Tick

InitStream == InitNconfigd /\ track = TRUE /\ NoLocker

SpecStream == InitStream /\ [][NextStream]_vars

\* The contenders for one lock key: lockers on the same or on different
\* hosts, blocking or not.
InitLocker ==
    /\ InitProgram /\ track = FALSE
    /\ prog = "locker" /\ cpc = "none" /\ ipc = "none" /\ dpc = "none" /\ hpc = "none"
    /\ InitLock
    /\ lval \in HostNames
    /\ lblock \in [Procs -> BOOLEAN]
    /\ NoRun /\ NoCall /\ NoTags /\ NoStart

NextLock ==
    \/ \E p \in Procs :
          \/ AcquireCreate(p) \/ AcquireRetry(p) \/ AcquireCancel(p)
          \/ RenewStart(p) \/ RenewCAS(p)
          \/ ReleaseCAS(p) \/ ReleaseStop(p) \/ ReleaseAgain(p)
          \/ NewHandle(p)
    \/ Expire

SpecLock == InitLocker /\ [][NextLock]_vars

\* Every call that has started goes on: a pending Acquire retries when the
\* key is gone, a renewal and a Release complete.
LockFairness ==
    \A p \in Procs :
        /\ WF_vars(AcquireRetry(p))
        /\ WF_vars(RenewCAS(p))
        /\ WF_vars(ReleaseStop(p))

SpecLockFair == InitLocker /\ [][NextLock]_vars /\ LockFairness

\* One run of locker among the contenders for its key.
InitLockerRun ==
    /\ InitProgram /\ track = FALSE
    /\ prog = "locker" /\ cpc = "none" /\ ipc = "none" /\ dpc = "none" /\ hpc = "none"
    /\ InitLock
    /\ lval \in HostNames
    /\ lblock \in [Procs -> BOOLEAN]
    /\ lproc = "running" /\ mpc = "acquire" /\ rpc = "none" /\ svc = "none"
    /\ NoCall /\ NoTags /\ NoStart

NextLockerRun ==
    \/ LockerAcquire \/ LockerAcquired \/ LockerRenew
    \/ LockerGo \/ LockerNotify \/ LockerKilled \/ LockerSignal
    \/ CmdStart \/ ServiceExits \/ CmdExited \/ CmdStop
    \/ HandoffSignal \/ HandoffDone \/ LockerReturn
    \/ \E p \in Procs \ {Self} :
          \/ AcquireCreate(p) \/ AcquireRetry(p) \/ AcquireCancel(p)
          \/ RenewStart(p) \/ RenewCAS(p)
          \/ ReleaseCAS(p) \/ ReleaseStop(p) \/ ReleaseAgain(p)
          \/ NewHandle(p)
    \/ Expire

SpecLockerRun == InitLockerRun /\ [][NextLockerRun]_vars

\* A call of ID() on any map of the bounded set.
InitID ==
    /\ InitProgram /\ track = FALSE
    /\ prog = "cli" /\ cpc = "none" /\ ipc = "none" /\ dpc = "none" /\ hpc = "none"
    /\ NoRun /\ InitLock
    /\ lval = [p \in Procs |-> 1]
    /\ lblock = [p \in Procs |-> FALSE]
    /\ jm \in JMaps
    /\ idr = [st |-> "none", val |-> ""]
    /\ NoTags /\ NoStart

NextID == CallID

SpecID == InitID /\ [][NextID]_vars

\* runAnsible and getTags on any Config and any batch of the bounded sets.
InitTags ==
    /\ InitProgram /\ track = FALSE
    /\ prog = "tags" /\ cpc = "none" /\ ipc = "none" /\ dpc = "none" /\ hpc = "none"
    /\ NoRun /\ NoCall /\ NoStart /\ InitLock
    /\ lval = [p \in Procs |-> 1]
    /\ lblock = [p \in Procs |-> FALSE]
    /\ config \in Configs /\ bkeys \in Batches
    /\ yields = <<>> /\ args = <<>> /\ calls = <<>>

NextTags == RunAnsible \/ CallGetTags

SpecTags == InitTags /\ [][NextTags]_vars

\* A caller of the Watcher alone: the store is mutated and compacted, prefixes
\* are added, and the caller loops on Next() until some task calls Close().
InitCaller ==
    /\ InitProgram /\ track = FALSE
    /\ prog = "watcher" /\ cpc = "none" /\ ipc = "none" /\ dpc = "none" /\ hpc = "none"
    /\ NoLocker

NextWatcher ==
    \/ \E x \in Prefixes :
          \/ StoreMutate(x) \/ WatcherAdd(x)
          \/ WatchTaskEvent(x) \/ WatchTaskStale(x) \/ WatchTaskResync(x)
          \/ WatchTaskError(x)
    \/ StoreCompact
    \/ WatcherNextCall \/ WatcherNextReturn \/ WatcherCloseCall

SpecWatcher == InitCaller /\ [][NextWatcher]_vars

\* dobharchu from its start, with the store and the watch tasks.
InitStart ==
    /\ InitProgram /\ track = FALSE
    /\ prog = "watcher" /\ cpc = "none" /\ ipc = "none" /\ dpc = "none" /\ hpc = "none"
    /\ NoRun /\ NoCall /\ NoTags /\ InitLock
    /\ lval = [p \in Procs |-> 1]
    /\ lblock = [p \in Procs |-> FALSE]
    /\ spc = "fetch" /\ fstate = {} /\ written = {}

NextStart ==
    \/ \E x \in Prefixes :
          \/ StoreMutate(x) \/ StartAdd(x)
          \/ WatchTaskEvent(x) \/ WatchTaskStale(x) \/ WatchTaskResync(x)
          \/ WatchTaskError(x)
    \/ StoreCompact
    \/ StartFetch \/ StartUpdate \/ StartNext \/ WatcherNextReturn \/ StartIntegrate

SpecStart == InitStart /\ [][NextStart]_vars

\* A call of Next() that can return does return.
SpecWatcherFair == InitCaller /\ [][NextWatcher]_vars /\ WF_vars(WatcherNextReturn)

\* ------------------------------------------------------------------ claims

\* The shutdown handler holds the token.
HandlerHolds == hpc \in {"close", "return"}

\* The worker is between taking the token and returning it.
WorkerInAction ==
    \/ cpc \in {"run", "put"}
    \/ dpc \in {"integrate", "fetch", "update", "put"}

\* C1: in nconfigd the shutdown handler calls Watcher.Close() only when the
\* action is not running and the worker has put the token back (the handler
\* holds it); Close() is called at most once, once it was called the handler
\* is at the return of main, and main returns only after exactly one Close().
C1_CloseAfterAction ==
    prog = "nconfigd" =>
        /\ closeCalls <= 1
        /\ HandlerHolds => (cpc \notin {"run", "put"} /\ ~done)
        /\ closeCalls = 1 => hpc = "return"
        /\ proc = "exit0" => closeCalls = 1

\* The signal arrived during the action, Close() was called once and main returned.
C1_Witness ==
    prog = "nconfigd" /\ sigInRun /\ closeCalls = 1 /\ proc = "exit0"

\* C3 (as stated): a burst of events with distinct keys, each less than a
\* quiet period after the one before, never runs the action more than once.
C3_AnyBurstOnce == nBurst > 0 => sFires <= 1

\* The burst is over and the consumer has nothing left to do.
BurstDone == nBurst > 0 /\ gLast = Quiet /\ ~Urgent /\ cpc # "run"

\* C3 (amended): when the last event of the burst arrives less than max-wait
\* after the first, the action runs at most once, with the keys of all the
\* events of the burst, and it has run once when the consumer waits again.
C3_ShortBurstOnce ==
    (nBurst > 0 /\ ~sLate) =>
        /\ sFires <= 1
        /\ sFires = 1 => sGot = 1..nBurst
        /\ BurstDone => (sFires = 1 /\ cpc = "select" /\ keys = {})

\* A burst of three or more keys was passed to the action in one run.
C3_Witness == BurstDone /\ ~sLate /\ nBurst >= 3 /\ sFires = 1 /\ sGot = 1..nBurst

\* C4 (as stated): while events keep arriving without a full quiet period,
\* more than max-wait never passes after a run of the action without the next.
C4_FireEveryMaxWait == contFire => sinceFire <= MaxWait

\* C4 (amended): a batch is fired at most max-wait after the consumer received
\* its first key, however the events keep arriving.
C4_BatchWithinMaxWait == ~maxStopped => bAge <= MaxWait

\* The max timer fired a batch that the quiet timer never would: events kept arriving.
C4_Witness == cpc = "take" /\ bAge = MaxWait /\ gLast < Quiet /\ Cardinality(keys) = NKeys

\* C5 (as stated): while the action runs, the ingestion goroutine is never
\* stuck at its send with a further event waiting in the Watcher.
C5_IngestNeverBlocked ==
    ~(Running /\ cpc = "run" /\ ipc = "send" /\ ~KeyHasRoom /\ wq # <<>>)

\* C5 (amended): while the action runs, the ingestion goroutine takes at most
\* ChanCap + 1 events from the Watcher: one fills `key`, one waits at the send;
\* and no key is added to the map `keys`: it is what the action was passed.
C5_IngestBounded == cpc = "run" => (busyTaken <= ChanCap + 1 /\ keys = aKeys)

\* Two events were taken during the action and a third waits in the Watcher.
C5_Witness == Running /\ cpc = "run" /\ busyTaken = ChanCap + 1 /\ wq # <<>>

\* C6 (as stated): after an action that failed, the token is back in the slot.
C6_TokenBackAfterFailure == proc \in {"ansibleFailed", "fetchFailed"} => ready = 1

\* C6 (amended): whenever the worker is not between taking the token and
\* returning it, in particular after every action that returned, the token
\* is in the slot or with the shutdown handler.
C6_TokenBackAfterReturn == ~WorkerInAction => (ready = 1 \/ HandlerHolds)

\* dobharchu is back at w.Next() after a round whose updateConfigs failed.
C6_Witness == prog = "dobharchu" /\ dpc = "next" /\ updErr /\ ready = 1 /\ Running

\* C2 (as stated): no two handles for the key are Held or Renewing at once.
C2_OneLiveHandle ==
    \A p, q \in Procs : p # q => ~(Live(p) /\ Live(q))

\* C2 (amended): the stored key has one creator and carries its value, and a
\* handle that is Held or Renewing without being that creator is one whose
\* key has gone from the store (expired, or deleted by another contender's
\* Release): no create succeeds while the key of a live holder is in the store.
C2_OneOwner ==
    /\ (kval = 0) = (owner = 0)
    /\ owner # 0 => kval = lval[owner]
    /\ \A p \in Procs : (Live(p) /\ owner # p) => gone[p]

\* Two handles are Held or Renewing: one created the stored key, the key of
\* the other has expired.
C2_Witness ==
    \E p, q \in Procs :
        p # q /\ Live(p) /\ Live(q) /\ owner = q /\ gone[p] /\ lval[p] # lval[q]

\* C7: with or without equal values, no renewal succeeds on a key that another
\* contender created (the lapsed holder goes to Lost instead), and no
\* Release() deletes a key that another contender created.
C7_SameValueSafe == ~staleRenewed /\ ~deletedOther

\* C8: a renewal succeeds only on the key this handle created and leaves the
\* stored value as it is, a renewal whose condition fails ends in Lost, and a
\* Lost handle is never Renewing or Held again.
C8_RenewalCAS ==
    [][\A p \in Procs :
          /\ (lst[p] = "Renewing" /\ lst'[p] = "Held") => (owner = p /\ kval' = kval)
          /\ (lst[p] = "Renewing" /\ kval # lval[p]) => lst'[p] \in {"Renewing", "Lost", "Released"}
          /\ lst[p] = "Lost" => lst'[p] \in {"Lost", "Released", "Unheld"}]_vars

C10_PendingAcquireReturns ==
    \A p \in Procs :
        (lst[p] = "Pending" /\ kval = 0) ~> (lst[p] \in {"Held", "Canceled"})

\* C10 (amended): a pending Acquire stays pending while the key exists; it
\* leaves only by cancellation or by creating the key when it is absent; a
\* blocking Acquire never fails with AlreadyHeld; and while the key is absent
\* it does not stay pending: it returns, or another contender creates the key.
C10_PendingUntilFree ==
    /\ [][\A p \in Procs :
            lst[p] = "Pending" =>
                \/ lst'[p] = "Pending"
                \/ lst'[p] = "Canceled"
                \/ lst'[p] = "Held" /\ kval = 0 /\ owner' = p]_vars
    /\ [](\A p \in Procs : lblock[p] => lst[p] # "Failed")
    /\ \A p \in Procs :
          (lst[p] = "Pending" /\ kval = 0) ~> (lst[p] # "Pending" \/ kval # 0)

\* A blocking Acquire that waited holds the key after the holder released it.
C10_Witness ==
    \E p, q \in Procs :
        p # q /\ waited[p] /\ lst[p] = "Held" /\ owner = p /\ lst[q] = "Released"

\* C11: a non-blocking Acquire is never pending; on a key that exists it
\* fails with AlreadyHeld and changes neither the store nor any other handle;
\* on an absent key it creates the key with its value and the handle is Held.
C11_NonBlockingAcquire ==
    /\ [](\A p \in Procs : ~lblock[p] => lst[p] # "Pending")
    /\ [][\A p \in Procs :
            (~lblock[p] /\ lst[p] = "Unheld" /\ lst'[p] # "Unheld") =>
                IF kval # 0
                  THEN /\ lst'[p] = "Failed"
                       /\ UNCHANGED <<kval, owner, lrel>>
                       /\ \A q \in Procs \ {p} : lst'[q] = lst[q]
                  ELSE /\ lst'[p] = "Held"
                       /\ kval' = lval[p] /\ owner' = p]_vars

\* A non-blocking Acquire has failed on the key that a live holder created.
C11_Witness ==
    \E p, q \in Procs :
        p # q /\ ~lblock[p] /\ lst[p] = "Failed" /\ owner = q /\ Live(q)

\* C12: for every watched prefix the index of the event that Next() delivers
\* never goes down and the last-seen index of the prefix never goes down,
\* under any interleaving of mutations, compaction, resyncs and deliveries;
\* every queued event of a prefix lies between the last delivered and the
\* last-seen index of that prefix.
C12_PrefixOrder ==
    /\ [][\A x \in Prefixes : dl'[x] >= dl[x] /\ cur'[x] >= cur[x]]_vars
    /\ [](\A n \in 1..Len(wqueue) :
            /\ dl[wqueue[n][1]] < wqueue[n][2]
            /\ wqueue[n][2] <= cur[wqueue[n][1]])

\* Next() has delivered an event of a prefix after a resync of that prefix
\* skipped one.
C12_Witness == \E x \in lost : dl[x] > 0 /\ dl[x] = cur[x]

\* Events of two prefixes were delivered against the order of their indexes.
CrossPrefixDisorder == crossed /\ wev[1] \in Prefixes
\* C13: once the Watcher is closed or has failed, a pending Next() returns,
\* every Next() that returns signals stop and delivers no event, Err() is
\* non-nil exactly when a watch task ran out of retries (nil after a clean
\* Close()), and a second Close() changes nothing of the Watcher.
C13_CloseStopsNext ==
    /\ (npc = "pending" /\ (wcl \/ wer)) ~> (npc = "stopped")
    /\ [][((wcl \/ wer) /\ npc = "pending" /\ npc' # "pending") =>
              (npc' = "stopped" /\ UNCHANGED <<wev, wqueue, dl>>)]_vars
    /\ [](WatcherErr <=> exhausted)
    /\ [][(wcl /\ wcloses' # wcloses) =>
              UNCHANGED <<kvVars, taskVars, wqueue, wcl, wer, npc, wev>>]_vars

\* No event ever arrived, Close() was called twice, and Next() has returned
\* stop with Err() nil.
C13_Witness ==
    sidx = 0 /\ wcloses = 2 /\ npc = "stopped" /\ ~WatcherErr /\ wqueue = <<>>
\* The tokens in the channel `ready`, with the worker and with the handler.
Tokens ==
    ready + (IF done THEN 1 ELSE 0) + (IF HandlerHolds THEN 1 ELSE 0)

\* C15: there is exactly one token, in `ready`, with the worker or with the
\* shutdown handler, so the worker and the handler never hold it together;
\* the worker is in its action exactly when it has the token, and its send
\* to `ready` finds the slot free.
C15_OneToken ==
    /\ Tokens = 1
    /\ ~(done /\ HandlerHolds)
    /\ done <=> WorkerInAction
    /\ (cpc = "put" \/ dpc = "put") => ready < ChanCap

\* The handler holds the token that the worker returned after a signal
\* that arrived during the action.
C15_Witness == sigInRun /\ HandlerHolds /\ ready = 0 /\ ~done /\ cpc = "select"

\* C16: in dobharchu a termination signal that arrives while an event is
\* being integrated or the configs are being rewritten does not end the
\* process before the update has completed and the token is back.
C16_SignalWaitsForUpdate ==
    (prog = "dobharchu" /\ WorkerInAction) => proc # "killed"

\* The consumer loop waits in its select and has received no key since the
\* last fire.
WaitingAfterFire == prog = "nconfigd" /\ cpc = "select" /\ maxStopped

\* C14: the action runs once per fire, with the keys collected; when the
\* loop waits again after a fire the key set is empty and both timers are
\* stopped with no expiry left in their channels, until the next key.
C14_DisarmedAfterFire ==
    WaitingAfterFire =>
        /\ keys = {}
        /\ timer = 0 /\ timerC = 0
        /\ max = 0 /\ maxC = 0

\* C20: the receive that follows a Stop() that returned false finds the
\* expiry of that timer in its channel.
C20_DrainNeverBlocks ==
    /\ cpc = "drainMax" => maxC = 1
    /\ cpc = "drainTimer" => timerC = 1
\* C17: when main has received the signal and is sending on cmddone,
\* cmdrun is not itself sending on cmddone: it can still receive.
C17_HandoffCompletes == (LockerRuns /\ mpc = "send") => rpc # "send"

\* C18: cmdrun is started only by a main whose Acquire returned a lock; a
\* run whose Acquire failed ends with log.Fatal as main's next step, with
\* cmdrun never started and no service.
C18_NoCommandWithoutLock ==
    /\ [][(rpc = "none" /\ rpc' # "none") => lst[Self] \in {"Held", "Renewing", "Lost"}]_vars
    /\ [](lst[Self] \in {"Failed", "Canceled"} =>
            (rpc = "none" /\ svc = "none" /\ mpc = "acquire"))
    /\ [](lproc = "lockFailed" => (rpc = "none" /\ svc = "none"))
    /\ [][(mpc # mpc' /\ mpc = "acquire") => lst[Self] \notin {"Failed", "Canceled"}]_vars

\* The non-blocking Acquire of this run failed on a key held by another
\* contender and the process has ended.
C18_Witness ==
    /\ ~lblock[Self] /\ lst[Self] = "Failed" /\ lproc = "lockFailed"
    /\ \E q \in Procs \ {Self} : owner = q /\ Live(q)

\* C19: ID() returns the string under "id", and the empty string, without
\* failing, for a map without "id".
C19_IDTotal ==
    idr.st # "none" =>
        IF "id" \in DOMAIN jm /\ jm["id"].t = "string"
          THEN idr = [st |-> "ok", val |-> jm["id"].s]
          ELSE "id" \notin DOMAIN jm => idr = [st |-> "ok", val |-> ""]
\* C21: a key sent on `key` reaches the action: the reset of the key set
\* discards only keys that were passed to the action that just ran, and the
\* consumer is never blocked for good with a sent key left in the channel.
C21_SentKeyReachesAction ==
    prog = "nconfigd" =>
        /\ cpc \in {"run", "put", "clear"} => keys = aKeys
        /\ key # <<>> => ~(cpc = "drainMax" /\ maxC = 0 /\ max = 0)

\* C22: a task whose watch failed with IndexStale goes on from the store's
\* current index, with no error surfaced, no retry counted and nothing
\* forwarded for the indexes it skipped; a task retries a failed call at most
\* MaxRetries times; the terminal error is raised only by a task that has
\* used up its retries, and with it Err() is non-nil, every task of every
\* prefix is halted and nothing is forwarded any more.
C22_ResyncAndRetry ==
    /\ [][\A x \in Prefixes :
            /\ (pst[x] = "Active" /\ pst'[x] = "Stale") => UNCHANGED <<wer, retries, cur, wqueue>>
            /\ (pst[x] = "Stale" /\ pst'[x] = "Active") =>
                   (cur'[x] = sidx /\ UNCHANGED <<wer, retries, wqueue>>)
            /\ cur'[x] # cur[x] =>
                   /\ cur'[x] > cur[x]
                   /\ wqueue' # wqueue => wqueue' = Append(wqueue, <<x, cur'[x]>>)]_vars
    /\ [](\A x \in Prefixes : retries[x] <= MaxRetries)
    /\ [][(~wer /\ wer') =>
            \E x \in Prefixes : retries[x] = MaxRetries /\ pst[x] \in {"Active", "Stale"}]_vars
    /\ [](wer => (WatcherErr /\ \A x \in Prefixes : pst[x] \in {"None", "Closed"}))
    /\ [][wer => /\ cur' = cur /\ wqueue' = wqueue
                 /\ npc = "pending" => npc' \in {"pending", "stopped"}]_vars

\* A task has resynchronized past an event of its prefix and has run on;
\* later a task used up its retries and Next() has returned stop.
C22_Witness ==
    /\ lost # {} /\ exhausted /\ npc = "stopped" /\ ~wcl
    /\ \E x \in lost : dl[x] > 0 /\ dl[x] = cur[x]

\* C23: in nconfigd, once the shutdown handler holds the token it keeps it:
\* `ready` stays empty, no action is running or starts, a consumer that
\* fired stays at <-ready, and no batch is passed to an action any more.
C23_NoActionAfterTake ==
    /\ []((prog = "nconfigd" /\ HandlerHolds) => (ready = 0 /\ cpc \notin {"run", "put"}))
    /\ [][(prog = "nconfigd" /\ HandlerHolds) =>
            /\ HandlerHolds'
            /\ cpc' # "run"
            /\ cpc = "take" => cpc' = "take"
            /\ aKeys' # aKeys => aKeys' = {}]_vars

\* A batch fired after the handler took the token: the consumer was still
\* at <-ready, with the keys of the batch, when main returned.
C23_Witness ==
    prog = "nconfigd" /\ HandlerHolds /\ cpc = "take" /\ keys # {} /\ proc = "exit0"

\* C24 (as stated): while the consumer of nconfigd holds the token and the
\* action is running, the process has neither returned from main nor ended
\* on a Watcher error.
C24_NoExitInAction ==
    (prog = "nconfigd" /\ done /\ cpc = "run") => proc \notin {"exit0", "watcherFailed"}

\* C24 (amended): main returns only with the token taken by the handler,
\* so with no action running; the process ends in the middle of an action
\* only by log.Fatal, on a Watcher error or on the failure of the ansible run.
C24_ExitInActionOnlyFatal ==
    prog = "nconfigd" =>
        /\ proc = "exit0" => (HandlerHolds /\ ~done /\ cpc \notin {"run", "put"})
        /\ (proc # "running" /\ done) =>
               \/ cpc = "run" /\ proc = "ansibleFailed"
               \/ cpc \in {"run", "put"} /\ proc = "watcherFailed"
        /\ proc = "watcherFailed" => werr

\* The Watcher failed while the action was running and the process has
\* ended with the token held by the consumer.
C24_Witness ==
    prog = "nconfigd" /\ proc = "watcherFailed" /\ cpc = "run" /\ done /\ ready = 0

\* C25: the arguments of the ansible run are "--kv", the address, and then
\* "-t" and a tag for every tag of the lists that getTags returned for the
\* keys of the batch, each tag once and in the order of sort.Strings; when
\* getTags returned no tag for one of the keys there is no "-t" at all.
C25_TagArgs ==
    args # <<>> =>
        LET full == \E k \in Range(bkeys) : Len(yields[k].tags) = 0
            union == UNION {Range(yields[k].tags) : k \in Range(bkeys)}
            n == (Len(args) - 2) \div 2
        IN  /\ args[1] = "--kv" /\ args[2] = "kvaddr"
            /\ Len(args) = 2 + 2 * n
            /\ \A k \in Range(bkeys) :
                   /\ yields[k] \in getTags(config, k)
                   /\ MatchingPrefixes(config, k) = {} => Len(yields[k].tags) = 0
            /\ \A i \in 1..n : args[2 * i + 1] = "-t"
            /\ \A i, j \in 1..n : i < j => Rank(args[2 * i + 2]) < Rank(args[2 * j + 2])
            /\ {args[2 * i + 2] : i \in 1..n} = IF full THEN {} ELSE union

\* A batch of two keys: getTags returned tags for the first and none for
\* the second, and the run has no "-t".
C25_Witness ==
    /\ Len(bkeys) = 2 /\ Len(args) = 2
    /\ Len(yields[bkeys[1]].tags) > 0 /\ Len(yields[bkeys[2]].tags) = 0

\* C27: successive calls of getTags with the same Config and key return the
\* same list: the entry of the key itself, else the entry of a configured
\* prefix of the key, else nil.
C27_GetTagsDeterministic ==
    /\ \A i, j \in DOMAIN calls : calls[i] = calls[j]
    /\ \A i \in DOMAIN calls :
           IF bkeys[1] \in DOMAIN config
             THEN calls[i] = [nil |-> FALSE, tags |-> config[bkeys[1]]]
             ELSE IF MatchingPrefixes(config, bkeys[1]) = {}
               THEN calls[i].nil
               ELSE \E w \in MatchingPrefixes(config, bkeys[1]) :
                       calls[i] = [nil |-> FALSE, tags |-> config[w]]

\* C26: in dobharchu no mutation under a watched prefix falls between the
\* first FetchAll and the Add of its prefix: every mutation the watch task
\* of an added prefix is past was fetched, or is in the Watcher's queue, or
\* is the event that Next() returned last.
C26_NoMutationInGap ==
    spc # "none" =>
        \A x \in Prefixes : pst[x] # "None" =>
            \A i \in 1..cur[x] :
                hist[i] = x =>
                    \/ i \in fstate
                    \/ \E j \in DOMAIN wqueue : wqueue[j] = <<x, i>>
                    \/ wev = <<x, i>>
====
